---- MODULE Spec2Model ----
(***************************************************************************)
(* A model of src/Rtsp/Rtsp.cpp of ZLMediaKit: the port-pair pool          *)
(* (PortManager<type>) with the retrying makeSockPair, the SDP parser      *)
(* (SdpParser) and the RTP header accessors (RtpHeader / RtpPacket).       *)
(***************************************************************************)
EXTENDS Integers, Sequences, FiniteSets, TLC

VARIABLES
    \* ---- PortManager<0> (UDP) and PortManager<1> (TCP), and their callers
    s_min_port,       \* configured range, parsed once by the constructor
    s_max_port,
    _port_pair_pool,  \* [PoolTypes -> Seq(pair index)], one deque per pool
    handles,          \* [HandleIds -> NoHandle or [type, pos]]: the shared_ptr<uint16_t> objects
    pc,               \* [Threads -> position of the thread in makeSockPair]
    try_count,        \* [Threads -> int], the local of the free makeSockPair
    is_udp,           \* [Threads -> BOOLEAN], the argument of the call
    sock_pair,        \* [Threads -> handle id or 0], the local of PortManager::makeSockPair
    pair,             \* [Threads -> <<socket, socket>>], the caller's socket pair
    new_pair,         \* [Threads -> <<socket, socket>>], the local auxiliary pair
    \* ---- SdpParser and the text it is given
    sdp,              \* the lines of the text of the last load; before the first
                      \* one, of the text the session is about to load
    junk_pt,          \* the values the uninitialised int pt holds in that load, one per read
    loads,            \* the number of load calls so far
    _track_vec,       \* Seq(SdpTrack), the parser's tracks
    ret_tracks,       \* the last result of getAvailableTrack (positions in _track_vec) in a sequence, <<>> before the call
    ret_available,    \* the last result of available in a sequence, <<>> before the call
    ret_string,       \* the last result of SdpParser::toString in a sequence, <<>> before the call
    \* ---- an RtpPacket and the results of the accessors called on it
    pkt,              \* the bytes of the buffer: 4 bytes of TCP prefix, then the RTP bytes
    oob_byte,         \* what a read behind the end of the buffer sees
    ret_hdr_size,     \* the last result of RtpHeader::getPayloadSize in a sequence, <<>> before the call
    ret_pkt_size,     \* the last result of RtpPacket::getPayloadSize in a sequence, <<>> before the call
    ret_is_rtp,       \* the last result of isRtp in a sequence, <<>> before the call
    ret_is_rtcp       \* the last result of isRtcp in a sequence, <<>> before the call

poolVars == <<s_min_port, s_max_port, _port_pair_pool, handles, pc, try_count,
              is_udp, sock_pair, pair, new_pair>>

sdpVars == <<sdp, junk_pt, loads, _track_vec, ret_tracks, ret_available, ret_string>>

rtpVars == <<pkt, oob_byte, ret_hdr_size, ret_pkt_size, ret_is_rtp, ret_is_rtcp>>

vars == <<poolVars, sdpVars, rtpVars>>

-----------------------------------------------------------------------------
(* Bounds of the model *)

\* The configured ranges "<min>-<max>" have an even and an odd min,
\* BasePort and BasePort + 1, and max in BasePort + 2 .. BasePort + 2 + MaxSpan:
\* pools of zero, one and two port pairs.
MaxSpan == 2
\* std::random_device seeds 0..MaxSeed are tried for each pool's mt19937
MaxSeed == 1
\* the texts given to SdpParser::load have at most MaxLines lines
MaxLines == 3
\* a parser is loaded at most MaxLoads times
MaxLoads == 2
\* an RtpPacket has at most MaxTail bytes behind the 12 fixed bytes of the header
MaxTail == 9

\* the sessions that call makeSockPair concurrently
Threads == {1, 2}
PoolTypes == {0, 1}
HandleIds == 1..(2 * Cardinality(Threads))
BasePort == 2 * 5
MinPorts == {BasePort, BasePort + 1}
MaxPorts == (BasePort + 2)..(BasePort + 2 + MaxSpan)
Seeds == 0..MaxSeed
\* the pair indices any of these ranges can hold
PairIndices == (BasePort \div 2)..((BasePort + 2 + MaxSpan) \div 2)

\* assert() of <cassert> is compiled out when NDEBUG is defined (release
\* builds); the small ranges of this model are accepted only by such a build.
NDEBUG == TRUE

NoHandle == [type |-> -1, pos |-> -1]
\* a Socket that is not open; its callbacks hold no port-pair handle
NoSock == [proto |-> "none", port |-> 0, cb |-> 0]

-----------------------------------------------------------------------------
(* PortManager construction *)

\* the k-th draw of the pool's std::mt19937 for a given seed: a bounded family
\* of draw sequences standing for the generator's output (all below 2^32)
RngDraw(seed, k) == seed * 7 + k * 3 + seed * k * 5

\* deque::insert(it, v) with it = begin() + at
InsertAt(dq, at, v) ==
    SubSeq(dq, 1, at) \o <<v>> \o SubSeq(dq, at + 1, Len(dq))

RECURSIVE setRangeLoop(_, _, _, _, _, _)
setRangeLoop(dq, it, start_pos, end_pos, seed, k) ==
    IF start_pos < end_pos
    THEN LET dq2 == InsertAt(dq, it, start_pos)
         IN  setRangeLoop(dq2, RngDraw(seed, k) % (1 + Len(dq2)),
                          start_pos + 1, end_pos, seed, k + 1)
    ELSE dq

\* PortManager::setRange: the deque after the loop, starting from an empty one
setRange(start_pos, end_pos, seed) ==
    setRangeLoop(<<>>, 0, start_pos, end_pos, seed, 0)

\* the assert of the constructor
CtorAssert(min_port, max_port) ==
    NDEBUG \/ max_port >= min_port + 36 - 1

CtorStartFloor(min_port) == min_port \div 2

\* the first pair index of the pool: (s_min_port + 1) / 2
CtorStart(min_port) == (min_port + 1) \div 2

\* PortManager::PortManager: setRange((s_min_port + 1) / 2, s_max_port / 2)
PortManagerCtor(min_port, max_port, seed) ==
    setRange(CtorStart(min_port), max_port \div 2, seed)

-----------------------------------------------------------------------------
(* Ownership of the shared_ptr<uint16_t> handles *)

\* the handle ids referenced by the owners sp (locals), pr (caller's sockets)
\* and np (auxiliary sockets)
OwnedBy(sp, pr, np) ==
    ({sp[t] : t \in Threads}
     \cup {pr[t][i].cb : t \in Threads, i \in 1..2}
     \cup {np[t][i].cb : t \in Threads, i \in 1..2}) \ {0}

Live == OwnedBy(sock_pair, pair, new_pair)

PushFront(dq, pos) == <<pos>> \o dq

\* deque::emplace_back(pos)
PushBack(dq, pos) == Append(dq, pos)

\* the deleter of the shared_ptr (lines 474-485) run for every handle that lost
\* its last owner: emplace_back(pos) on the pool the handle came from
RECURSIVE Released(_, _, _)
Released(pool, hs, dead) ==
    IF dead = {} THEN pool
    ELSE LET h == CHOOSE x \in dead : \A y \in dead : x <= y
         IN  Released([pool EXCEPT ![hs[h].type] = PushBack(@, hs[h].pos)],
                      hs, dead \ {h})

\* the pools and the handle table after the owners changed to sp, pr, np
AfterDrop(pool, hs, sp, pr, np) ==
    LET live2 == OwnedBy(sp, pr, np)
        dead  == {h \in HandleIds : hs[h] # NoHandle /\ h \notin live2}
    IN  [pool |-> Released(pool, hs, dead),
         hs   |-> [h \in HandleIds |-> IF h \in dead THEN NoHandle ELSE hs[h]]]

\* the identity of a new handle of thread t (a thread has at most two: the one
\* of the running attempt and the one an earlier attempt left in its sockets)
FreeId(hs, t) == IF hs[2 * t - 1] = NoHandle THEN 2 * t - 1 ELSE 2 * t

PoolAlwaysUdp(udp) == 0
\* PortManager<0> serves the UDP calls, PortManager<1> the TCP calls
PoolOf(udp) == IF udp THEN 0 ELSE 1
ProtoName(udp) == IF udp THEN "udp" ELSE "tcp"

-----------------------------------------------------------------------------
(* The free function makeSockPair and PortManager::makeSockPair *)

\* a session creates two sockets and calls makeSockPair(pair, ip, reuse, udp)
Call(t, udp) ==
    /\ pc[t] = "idle"
    /\ pc' = [pc EXCEPT ![t] = "try"]
    /\ try_count' = [try_count EXCEPT ![t] = 0]
    /\ is_udp' = [is_udp EXCEPT ![t] = udp]
    /\ UNCHANGED <<s_min_port, s_max_port, _port_pair_pool, handles, sock_pair,
                   pair, new_pair>>
    /\ UNCHANGED <<sdpVars, rtpVars>>

MaxTry == 3

RethrowLate(n) == n = MaxTry + 1

\* whether the catch block rethrows, for the incremented try_count
Rethrow(n) == n = MaxTry

\* catch (exception &ex) { if (++try_count == 3) throw; ... }: where thread t
\* continues after an attempt threw
Catch(t) ==
    /\ try_count' = [try_count EXCEPT ![t] = @ + 1]
    /\ pc' = [pc EXCEPT ![t] = IF Rethrow(try_count[t] + 1) THEN "failed" ELSE "try"]

KeepFront(dq) == dq

\* deque::pop_front()
PopFront(dq) == Tail(dq)

\* PortManager::getPortPair, with the throw of makeSockPair when it is null
getPortPair(t) ==
    /\ pc[t] = "try"
    /\ LET p == PoolOf(is_udp[t])
       IN  IF _port_pair_pool[p] = <<>>
           THEN /\ Catch(t)
                /\ UNCHANGED <<_port_pair_pool, handles, sock_pair>>
           ELSE LET pos == Head(_port_pair_pool[p])
                    h   == FreeId(handles, t)
                IN  /\ _port_pair_pool' = [_port_pair_pool EXCEPT ![p] = PopFront(@)]
                    /\ handles' = [handles EXCEPT ![h] = [type |-> p, pos |-> pos]]
                    /\ sock_pair' = [sock_pair EXCEPT ![t] = h]
                    /\ pc' = [pc EXCEPT ![t] = "bind"]
                    /\ UNCHANGED try_count
    /\ UNCHANGED <<s_min_port, s_max_port, is_udp, pair, new_pair>>
    /\ UNCHANGED <<sdpVars, rtpVars>>

\* the physical ports of a pair index
Port0(pos) == 2 * pos
Port1Even(pos) == 2 * pos
Port1(pos) == 2 * pos + 1

\* makeSockPair_l on the sockets ss for the handle h: bindUdpSock / listen of
\* sock0 then sock1, then the on_cycle callbacks that capture the handle.
\* fail = 0: both succeed; 1: sock0 fails (throw); 2: sock1 fails (throw).
\* A socket closes what it had open before it binds again.
makeSockPair_l(ss, h, pos, udp, fail) ==
    LET b0 == [ss[1] EXCEPT !.proto = ProtoName(udp), !.port = Port0(pos)]
        b1 == [ss[2] EXCEPT !.proto = ProtoName(udp), !.port = Port1(pos)]
        c0 == [ss[1] EXCEPT !.proto = "none", !.port = 0]
        c1 == [ss[2] EXCEPT !.proto = "none", !.port = 0]
    IN  CASE fail = 1 -> <<c0, ss[2]>>
          [] fail = 2 -> <<b0, c1>>
          [] OTHER    -> <<[b0 EXCEPT !.cb = h], [b1 EXCEPT !.cb = h]>>

\* the rest of PortManager::makeSockPair after getPortPair returned a handle:
\* makeSockPair_l on the caller's pair (failing as fail1 says), then, when it
\* did not throw, on the local new_pair for the other protocol (failing as
\* fail2 says).  A throw unwinds new_pair and sock_pair and reaches the catch
\* block of the free makeSockPair.
BindBoth(t, fail1, fail2) ==
    /\ pc[t] = "bind"
    /\ fail1 # 0 => fail2 = 0
    /\ LET h   == sock_pair[t]
           pos == handles[h].pos
           pr  == [pair EXCEPT ![t] =
                     makeSockPair_l(pair[t], h, pos, is_udp[t], fail1)]
           np  == [new_pair EXCEPT ![t] =
                     IF fail1 = 0
                     THEN makeSockPair_l(<<NoSock, NoSock>>, h, pos, ~is_udp[t], fail2)
                     ELSE @]
           ok  == fail1 = 0 /\ fail2 = 0
           \* the sockets of new_pair are destroyed by the unwinding
           np2 == IF ok THEN np ELSE [np EXCEPT ![t] = <<NoSock, NoSock>>]
           sp  == IF ok THEN sock_pair ELSE [sock_pair EXCEPT ![t] = 0]
           res == AfterDrop(_port_pair_pool, handles, sp, pr, np2)
       IN  /\ pair' = pr
           /\ new_pair' = np2
           /\ sock_pair' = sp
           /\ _port_pair_pool' = res.pool
           /\ handles' = res.hs
           /\ IF ok
              THEN pc' = [pc EXCEPT ![t] = "ret"] /\ UNCHANGED try_count
              ELSE Catch(t)
    /\ UNCHANGED <<s_min_port, s_max_port, is_udp>>
    /\ UNCHANGED <<sdpVars, rtpVars>>

\* what is left of the local new_pair once PortManager::makeSockPair returned
ScopeExit(np) == <<NoSock, NoSock>>

\* PortManager::makeSockPair returns: new_pair and sock_pair go out of scope,
\* and the free makeSockPair leaves its loop (break)
Return(t) ==
    /\ pc[t] = "ret"
    /\ LET sp  == [sock_pair EXCEPT ![t] = 0]
           np  == [new_pair EXCEPT ![t] = ScopeExit(@)]
           res == AfterDrop(_port_pair_pool, handles, sp, pair, np)
       IN  /\ sock_pair' = sp
           /\ new_pair' = np
           /\ _port_pair_pool' = res.pool
           /\ handles' = res.hs
    /\ pc' = [pc EXCEPT ![t] = "done"]
    /\ try_count' = [try_count EXCEPT ![t] = 0]
    /\ UNCHANGED <<s_min_port, s_max_port, is_udp, pair>>
    /\ UNCHANGED <<sdpVars, rtpVars>>

\* the caller destroys its two sockets (after a success or after the error):
\* their callbacks, and with them the captured handles, are destroyed
DropPair(t) ==
    /\ pc[t] \in {"done", "failed"}
    /\ LET pr  == [pair EXCEPT ![t] = <<NoSock, NoSock>>]
           res == AfterDrop(_port_pair_pool, handles, sock_pair, pr, new_pair)
       IN  /\ pair' = pr
           /\ _port_pair_pool' = res.pool
           /\ handles' = res.hs
    /\ pc' = [pc EXCEPT ![t] = "idle"]
    /\ try_count' = [try_count EXCEPT ![t] = 0]
    /\ is_udp' = [is_udp EXCEPT ![t] = TRUE]
    /\ UNCHANGED <<s_min_port, s_max_port, sock_pair, new_pair>>
    /\ UNCHANGED <<sdpVars, rtpVars>>

-----------------------------------------------------------------------------
(* Text: a string is a sequence of one-character strings *)

S_video == <<"v", "i", "d", "e", "o">>
S_audio == <<"a", "u", "d", "i", "o">>
S_rtpmap == <<"r", "t", "p", "m", "a", "p">>
S_fmtp == <<"f", "m", "t", "p">>
S_control == <<"c", "o", "n", "t", "r", "o", "l">>
\* The lines an SDP text of the model is made of
\* m=audio 0 RTP/AVP 8
L_audio8 == <<"m", "=", "a", "u", "d", "i", "o", " ", "0", " ", "R", "T", "P", "/", "A", "V", "P", " ", "8">>
\* m=video 0 RTP/AVP 96\r
L_video96 == <<"m", "=", "v", "i", "d", "e", "o", " ", "0", " ", "R", "T", "P", "/", "A", "V", "P", " ", "9", "6", "\r">>
\* m=audio 4/2 RTP/AVP 255
L_audio255 == <<"m", "=", "a", "u", "d", "i", "o", " ", "4", "/", "2", " ", "R", "T", "P", "/", "A", "V", "P", " ", "2", "5", "5">>
\* m=text 0 RTP/AVP 96
L_text == <<"m", "=", "t", "e", "x", "t", " ", "0", " ", "R", "T", "P", "/", "A", "V", "P", " ", "9", "6">>
\* m=audio
L_badm == <<"m", "=", "a", "u", "d", "i", "o">>
\* a=rtpmap:96 H264/90000
L_rtpmap96 == <<"a", "=", "r", "t", "p", "m", "a", "p", ":", "9", "6", " ", "H", "2", "6", "4", "/", "9", "0", "0", "0", "0">>
\*  a=rtpmap:8 PCMA/8000/1   (with a leading blank)
L_rtpmap8 == <<" ", "a", "=", "r", "t", "p", "m", "a", "p", ":", "8", " ", "P", "C", "M", "A", "/", "8", "0", "0", "0", "/", "1">>
\* a=fmtp:96 p=1
L_fmtp96 == <<"a", "=", "f", "m", "t", "p", ":", "9", "6", " ", "p", "=", "1">>
\* a=fmtp:x y
L_fmtpjunk == <<"a", "=", "f", "m", "t", "p", ":", "x", " ", "y">>
\* a=control:t1
L_control == <<"a", "=", "c", "o", "n", "t", "r", "o", "l", ":", "t", "1">>
\* b=AS:5
L_b == <<"b", "=", "A", "S", ":", "5">>
\* t=0 0
L_t == <<"t", "=", "0", " ", "0">>
\* s=x
L_s == <<"s", "=", "x">>

SdpLines ==
    {L_audio8, L_video96, L_audio255, L_text, L_badm, L_rtpmap96, L_rtpmap8,
     L_fmtp96, L_fmtpjunk, L_control, L_b, L_t, L_s}

-----------------------------------------------------------------------------
(* sscanf and the string helpers *)

\* isspace()
Space == {" ", "\t", "\r", "\n"}
Digits == <<"0", "1", "2", "3", "4", "5", "6", "7", "8", "9">>
IsDigit(c) == \E d \in 1..10 : Digits[d] = c
DigitVal(c) == (CHOOSE d \in 1..10 : Digits[d] = c) - 1

\* a white-space directive of a format: skips any amount of white space
RECURSIVE SkipWs(_, _)
SkipWs(s, i) == IF i <= Len(s) /\ s[i] \in Space THEN SkipWs(s, i + 1) ELSE i

RECURSIVE ScanDigits(_, _, _)
ScanDigits(s, i, acc) ==
    IF i <= Len(s) /\ IsDigit(s[i])
    THEN ScanDigits(s, i + 1, acc * 10 + DigitVal(s[i]))
    ELSE [val |-> acc, next |-> i]

\* the conversion %d at position i: leading white space, a sign, digits
ScanInt(s, i) ==
    LET j    == SkipWs(s, i)
        sign == j <= Len(s) /\ s[j] \in {"-", "+"}
        k    == IF sign THEN j + 1 ELSE j
        d    == ScanDigits(s, k, 0)
    IN  IF d.next = k
        THEN [ok |-> FALSE, val |-> 0, next |-> i]
        ELSE [ok |-> TRUE, next |-> d.next,
              val |-> IF sign /\ s[j] = "-" THEN 0 - d.val ELSE d.val]

RECURSIVE ScanSetEnd(_, _, _, _)
ScanSetEnd(s, i, stop, n) ==
    IF i <= Len(s) /\ s[i] # stop /\ n > 0
    THEN ScanSetEnd(s, i + 1, stop, n - 1)
    ELSE i

\* the conversion %15[^stop] at position i: at least one character
ScanSet(s, i, stop) ==
    LET e == ScanSetEnd(s, i, stop, 15)
    IN  IF e = i
        THEN [ok |-> FALSE, val |-> <<>>, next |-> i]
        ELSE [ok |-> TRUE, val |-> SubSeq(s, i, e - 1), next |-> e]

\* a literal character of a format
Lit(s, i, c) == i <= Len(s) /\ s[i] = c

\* sscanf(s, " %15[^ ] %d %15[^ ] %d", type, &port, rtp, &pt): n is its result
ScanMedia4(s) ==
    LET a == ScanSet(s, SkipWs(s, 1), " ")
        b == ScanInt(s, a.next)
        c == ScanSet(s, SkipWs(s, b.next), " ")
        d == ScanInt(s, c.next)
    IN  [n    |-> IF ~a.ok THEN 0 ELSE IF ~b.ok THEN 1 ELSE IF ~c.ok THEN 2
                  ELSE IF ~d.ok THEN 3 ELSE 4,
         type |-> a.val, port |-> b.val, pt |-> d.val]

\* sscanf(s, " %15[^ ] %d/%d %15[^ ] %d", type, &port, &port_count, rtp, &pt)
ScanMedia5(s) ==
    LET a == ScanSet(s, SkipWs(s, 1), " ")
        b == ScanInt(s, a.next)
        c == ScanInt(s, b.next + 1)
        d == ScanSet(s, SkipWs(s, c.next), " ")
        e == ScanInt(s, d.next)
    IN  [n    |-> IF ~a.ok THEN 0 ELSE IF ~b.ok THEN 1
                  ELSE IF ~Lit(s, b.next, "/") \/ ~c.ok THEN 2
                  ELSE IF ~d.ok THEN 3 ELSE IF ~e.ok THEN 4 ELSE 5,
         type |-> a.val, port |-> b.val, pt |-> e.val]

\* sscanf(s, "%d %15[^/]/%d/%d", &pt, codec, &samplerate, &channel)
ScanRtpmap4(s) ==
    LET a == ScanInt(s, 1)
        b == ScanSet(s, SkipWs(s, a.next), "/")
        c == ScanInt(s, b.next + 1)
        d == ScanInt(s, c.next + 1)
    IN  [n     |-> IF ~a.ok THEN 0 ELSE IF ~b.ok THEN 1
                   ELSE IF ~Lit(s, b.next, "/") \/ ~c.ok THEN 2
                   ELSE IF ~Lit(s, c.next, "/") \/ ~d.ok THEN 3 ELSE 4,
         pt |-> a.val, codec |-> b.val, samplerate |-> c.val, channel |-> d.val]

\* sscanf(s, "%d %15[^/]/%d", &pt, codec, &samplerate)
ScanRtpmap3(s) ==
    LET a == ScanInt(s, 1)
        b == ScanSet(s, SkipWs(s, a.next), "/")
        c == ScanInt(s, b.next + 1)
    IN  [n     |-> IF ~a.ok THEN 0 ELSE IF ~b.ok THEN 1
                   ELSE IF ~Lit(s, b.next, "/") \/ ~c.ok THEN 2 ELSE 3,
         pt |-> a.val, codec |-> b.val, samplerate |-> c.val]

\* the first position >= i of character c in s, 0 when there is none (strstr)
RECURSIVE IndexOf(_, _, _)
IndexOf(s, c, i) ==
    IF i > Len(s) THEN 0 ELSE IF s[i] = c THEN i ELSE IndexOf(s, c, i + 1)

Null == "nullptr"

\* findSubString(buf, start, end) for one-character marks: the text after the
\* first start (from the beginning when start is null) up to the first end
\* that follows (to the end of buf when end is null); empty when a mark is missing
findSubString(buf, start, end) ==
    LET at   == IF start = Null THEN 0 ELSE IndexOf(buf, start, 1)
        from == at + 1
        to   == IF end = Null THEN Len(buf) + 1 ELSE IndexOf(buf, end, from)
    IN  IF (start # Null /\ at = 0) \/ to = 0 THEN <<>> ELSE SubSeq(buf, from, to - 1)

RECURSIVE TrimLeft(_)
TrimLeft(s) == IF s # <<>> /\ Head(s) \in Space THEN TrimLeft(Tail(s)) ELSE s
RECURSIVE TrimRight(_)
TrimRight(s) ==
    IF s # <<>> /\ s[Len(s)] \in Space THEN TrimRight(SubSeq(s, 1, Len(s) - 1)) ELSE s

\* trim(line): the white space around the line is removed
trim(s) == TrimRight(TrimLeft(s))

-----------------------------------------------------------------------------
(* RtpPayload: the static payload types the model uses *)

\* RtpPayload::getClockRate
getClockRate(pt) ==
    CASE pt = 0 -> 8000 [] pt = 8 -> 8000 [] pt = 10 -> 44100 [] OTHER -> 90000

\* RtpPayload::getAudioChannel
getAudioChannel(pt) == CASE pt = 10 -> 2 [] OTHER -> 1

-----------------------------------------------------------------------------
(* SdpParser *)

\* the value 0xff of SdpTrack::_pt (a uint8_t) that stands for "not set"
kUnsetPt == 255

\* a track made by std::make_shared<SdpTrack>()
NewSdpTrack ==
    [_type |-> "unset", _pt |-> kUnsetPt, _samplerate |-> 0, _channel |-> 0,
     _port |-> 0, _t |-> <<>>, _b |-> <<>>, _codec |-> <<>>, _fmtp |-> <<>>,
     _control |-> <<>>, _attr |-> <<>>, _other |-> <<>>]

toTrackType(str) ==
    IF str = <<>> THEN "title"
    ELSE IF str = S_video THEN "video"
    ELSE IF str = S_audio THEN "audio"
    ELSE "invalid"

\* the track the local `track` points to: st.vec[st.cur], or the track that
\* was made for an m= line and not pushed (st.cur = 0)
CurTrack(st) == IF st.cur = 0 THEN st.orphan ELSE st.vec[st.cur]
SetCur(st, trk) ==
    IF st.cur = 0 THEN [st EXCEPT !.orphan = trk]
    ELSE [st EXCEPT !.vec = [@ EXCEPT ![st.cur] = trk]]

\* std::map<char, string>::operator[] assignment, the map kept as a list of
\* <<key, value>> in key order of first insertion
PutOther(m, key, val) ==
    IF \E k \in 1..Len(m) : m[k][1] = key
    THEN [k \in 1..Len(m) |-> IF m[k][1] = key THEN <<key, val>> ELSE m[k]]
    ELSE Append(m, <<key, val>>)

MediaLineKeepTrack(st, opt_val) ==
    LET m4  == ScanMedia4(opt_val)
        m5  == ScanMedia5(opt_val)
        m   == IF m4.n = 4 THEN m4 ELSE m5
        trk == [NewSdpTrack EXCEPT !._pt = m.pt % 256,
                                   !._samplerate = getClockRate(m.pt),
                                   !._channel = getAudioChannel(m.pt),
                                   !._type = toTrackType(m.type),
                                   !._port = m.port % 65536]
    IN  IF m4.n = 4 \/ m5.n = 5
        THEN [vec |-> Append(st.vec, trk), cur |-> Len(st.vec) + 1, orphan |-> st.orphan]
        ELSE st

\* case 'm' of SdpParser::load
MediaLine(st, opt_val) ==
    LET m4  == ScanMedia4(opt_val)
        m5  == ScanMedia5(opt_val)
        m   == IF m4.n = 4 THEN m4 ELSE m5
        trk == [NewSdpTrack EXCEPT !._pt = m.pt % 256,
                                   !._samplerate = getClockRate(m.pt),
                                   !._channel = getAudioChannel(m.pt),
                                   !._type = toTrackType(m.type),
                                   !._port = m.port % 65536]
    IN  IF m4.n = 4 \/ m5.n = 5
        THEN [vec |-> Append(st.vec, trk), cur |-> Len(st.vec) + 1, orphan |-> st.orphan]
        ELSE [vec |-> st.vec, cur |-> 0, orphan |-> NewSdpTrack]

\* case 'a' of SdpParser::load
AttrLine(st, opt_val) ==
    LET attr == findSubString(opt_val, Null, ":")
        trk  == CurTrack(st)
    IN  IF attr = <<>>
        THEN SetCur(st, [trk EXCEPT !._attr = Append(@, <<opt_val, <<>>>>)])
        ELSE SetCur(st, [trk EXCEPT !._attr =
                            Append(@, <<attr, findSubString(opt_val, ":", Null)>>)])

\* the body of the loop over the lines (lines 192-230)
ParseLine(st, raw) ==
    LET line == trim(raw)
    IN  IF Len(line) < 2 \/ line[2] # "="
        THEN st
        ELSE LET opt     == line[1]
                 opt_val == SubSeq(line, 3, Len(line))
                 trk     == CurTrack(st)
             IN  CASE opt = "t" -> SetCur(st, [trk EXCEPT !._t = opt_val])
                   [] opt = "b" -> SetCur(st, [trk EXCEPT !._b = opt_val])
                   [] opt = "m" -> MediaLine(st, opt_val)
                   [] opt = "a" -> AttrLine(st, opt_val)
                   [] OTHER     -> SetCur(st, [trk EXCEPT !._other = PutOther(@, opt, opt_val)])

RECURSIVE ParseLines(_, _, _)
ParseLines(lines, k, st) ==
    IF k > Len(lines) THEN st ELSE ParseLines(lines, k + 1, ParseLine(st, lines[k]))

KeepTracks(vec) == vec

\* _track_vec.clear()
ClearTracks(vec) == <<>>

\* the first block of SdpParser::load (lines 184-232) on the lines of the text
\* (split(sdp, "\n")), from the track sequence vec of the parser
ParseSdp(vec, lines) ==
    LET title == [NewSdpTrack EXCEPT !._type = "title"]
        v0    == Append(ClearTracks(vec), title)
    IN  ParseLines(lines, 1, [vec |-> v0, cur |-> Len(v0), orphan |-> NewSdpTrack])

RemoveAt(s, k) == SubSeq(s, 1, k - 1) \o SubSeq(s, k + 1, Len(s))

NeverMismatch(track_pt, pt) == FALSE

\* the test that drops an rtpmap / fmtp entry (lines 256 and 278)
PtMismatch(track_pt, pt) == track_pt # pt /\ track_pt # kUnsetPt

\* the int pt that sscanf(.., "%d", &pt) leaves: the leading number, or the
\* indeterminate value of the uninitialised local when there is none
LeadingPt(v, indeterminate) ==
    IF ScanInt(v, 1).ok THEN ScanInt(v, 1).val ELSE indeterminate

\* the indeterminate value of the read made at entry k of the attributes attr:
\* junk holds one value for each iteration of a loop, told apart by the number
\* of entries the loop has left
JunkAt(junk, attr, k) == junk[Len(attr) - k + 1]

\* the loop over the rtpmap entries (lines 250-272), from entry k on
RECURSIVE RtpmapLoop(_, _, _)
RtpmapLoop(trk, k, junk) ==
    IF k > Len(trk._attr) THEN trk
    ELSE IF trk._attr[k][1] # S_rtpmap THEN RtpmapLoop(trk, k + 1, junk)
    ELSE LET rtpmap == trk._attr[k][2]
             r4     == ScanRtpmap4(rtpmap)
             r3     == ScanRtpmap3(rtpmap)
         IN  IF PtMismatch(trk._pt, LeadingPt(rtpmap, JunkAt(junk, trk._attr, k)))
             THEN RtpmapLoop([trk EXCEPT !._attr = RemoveAt(@, k)], k, junk)
             ELSE IF r4.n = 4
             THEN RtpmapLoop([trk EXCEPT !._codec = r4.codec,
                                         !._samplerate = r4.samplerate,
                                         !._channel = r4.channel], k + 1, junk)
             ELSE IF r3.n = 3
             THEN RtpmapLoop([trk EXCEPT !._pt = r3.pt % 256,
                                         !._codec = r3.codec,
                                         !._samplerate = r3.samplerate], k + 1, junk)
             ELSE RtpmapLoop(trk, k + 1, junk)

\* the loop over the fmtp entries (lines 274-286), from entry k on
RECURSIVE FmtpLoop(_, _, _)
FmtpLoop(trk, k, junk) ==
    IF k > Len(trk._attr) THEN trk
    ELSE IF trk._attr[k][1] # S_fmtp THEN FmtpLoop(trk, k + 1, junk)
    ELSE LET fmtp == trk._attr[k][2]
         IN  IF PtMismatch(trk._pt, LeadingPt(fmtp, JunkAt(junk, trk._attr, k)))
             THEN FmtpLoop([trk EXCEPT !._attr = RemoveAt(@, k)], k, junk)
             ELSE FmtpLoop([trk EXCEPT !._fmtp = findSubString(fmtp, " ", Null)],
                           k + 1, junk)

\* _attr.find("control") (lines 288-291)
SetControl(trk) ==
    LET ks == {k \in 1..Len(trk._attr) : trk._attr[k][1] = S_control}
    IN  IF ks = {} THEN trk
        ELSE [trk EXCEPT !._control =
                 trk._attr[CHOOSE k \in ks : \A j \in ks : k <= j][2]]

\* the sample rate of a video track that has none (lines 293-296); an audio
\* track without one asks Factory::getTrackBySdp, which no text of the model
\* reaches
DefaultRate(trk) ==
    IF trk._samplerate = 0 /\ trk._type = "video"
    THEN [trk EXCEPT !._samplerate = 90000]
    ELSE trk

\* the body of the second loop of SdpParser::load (lines 234-304); the range
\* attribute, which no statement here reads, is left out
ResolveTrack(trk, junk) ==
    DefaultRate(SetControl(FmtpLoop(RtpmapLoop(trk, 1, junk), 1, junk)))

\* SdpParser::load: the track sequence after the call
load(vec, lines, junk) ==
    LET st == ParseSdp(vec, lines)
    IN  [k \in 1..Len(st.vec) |-> ResolveTrack(st.vec[k], junk)]

\* SdpParser::getTrack: the first track of the type, 0 for nullptr
getTrack(vec, type) ==
    LET ks == {k \in 1..Len(vec) : vec[k]._type = type}
    IN  IF ks = {} THEN 0 ELSE CHOOSE k \in ks : \A j \in ks : k <= j

\* SdpParser::available
available(vec) == getTrack(vec, "audio") # 0 \/ getTrack(vec, "video") # 0

RECURSIVE AvailableLoop(_, _, _, _, _)
AvailableLoop(vec, k, ret, audio_added, video_added) ==
    IF k > Len(vec) THEN ret
    ELSE IF vec[k]._type = "audio"
    THEN AvailableLoop(vec, k + 1, IF audio_added THEN ret ELSE Append(ret, k),
                       TRUE, video_added)
    ELSE IF vec[k]._type = "video"
    THEN AvailableLoop(vec, k + 1, IF video_added THEN ret ELSE Append(ret, k),
                       audio_added, TRUE)
    ELSE AvailableLoop(vec, k + 1, ret, audio_added, video_added)

AllMediaTracks(vec) ==
    LET ks == {k \in 1..Len(vec) : vec[k]._type \in {"audio", "video"}}
    IN  [n \in 1..Cardinality(ks) |->
            CHOOSE k \in ks : Cardinality({j \in ks : j < k}) = n - 1]

\* SdpParser::getAvailableTrack: the tracks returned, as positions in vec
getAvailableTrack(vec) == AvailableLoop(vec, 1, <<>>, FALSE, FALSE)

\* A printed text is the sequence of its lines; a line is <<"m", type, port, pt>>,
\* <<"b", value>>, <<"a", key, value>> or one fixed line of the session block.

\* getAttrSdp: the multimap is walked in key order (entries of one key in
\* insertion order); the keys of the model's lines are control, fmtp, rtpmap.
\* Entries other than control are printed as they come, the last control
\* entry at the end.
getAttrSdp(attr) ==
    LET keyed(key) == SelectSeq(attr, LAMBDA e : e[1] = key)
        rest       == SelectSeq(attr, LAMBDA e : e[1] \notin {S_control, S_fmtp, S_rtpmap})
        walk       == keyed(S_control) \o keyed(S_fmtp) \o keyed(S_rtpmap) \o rest
        plain      == SelectSeq(walk, LAMBDA e : e[1] # S_control)
        ctl        == keyed(S_control)
        line(e)    == <<"a", e[1], e[2]>>
    IN  [k \in 1..Len(plain) |-> line(plain[k])]
        \o (IF ctl = <<>> THEN <<>> ELSE <<line(ctl[Len(ctl)])>>)

\* TitleSdp(dur_sec).getSdp() with no header lines given
TitleSdp(dur_sec) ==
    <<<<"v=0">>, <<"o=- 0 0 IN IP4 0.0.0.0">>, <<"s=Streamed by">>, <<"c=IN IP4 0.0.0.0">>,
      <<"t=0 0">>,
      <<IF dur_sec <= 0 THEN "a=range:npt=now-" ELSE "a=range:npt=0-dur">>,
      <<"a=control:*">>>>

\* SdpTrack::toString(port); the texts of the model have no a=range line, so
\* _duration keeps its initial 0
SdpTrack_toString(trk, port) ==
    CASE trk._type = "title" -> TitleSdp(0)
      [] trk._type \in {"audio", "video"} ->
            <<<<"m", trk._type, port, trk._pt>>>>
            \o (IF trk._b # <<>> THEN <<<<"b", trk._b>>>> ELSE <<>>)
            \o getAttrSdp(trk._attr)
      [] OTHER -> <<>>

\* the loop of SdpParser::toString from track k on, and its return value
RECURSIVE toStringLoop(_, _, _, _, _)
toStringLoop(vec, k, title, audio, video) ==
    IF k > Len(vec) THEN title \o video \o audio
    ELSE LET text == SdpTrack_toString(vec[k], 0)
         IN  CASE vec[k]._type = "title" -> toStringLoop(vec, k + 1, text, audio, video)
               [] vec[k]._type = "video" -> toStringLoop(vec, k + 1, title, audio, text)
               [] vec[k]._type = "audio" -> toStringLoop(vec, k + 1, title, text, video)
               [] OTHER -> toStringLoop(vec, k + 1, title, audio, video)

\* SdpParser::toString
toString(vec) == toStringLoop(vec, 1, <<>>, <<>>, <<>>)

\* every text of at most maxLines lines
TextsUpTo(maxLines) == UNION {[1..n -> SdpLines] : n \in 0..maxLines}

\* the texts of the first load of a parser
SdpTexts == TextsUpTo(MaxLines)
\* the texts a parser that has loaded one is given next
ReloadTexts == {<<>>, <<L_audio8, L_badm>>}
\* the values the uninitialised int pt may hold
JunkPts == {8, 96}

\* whether the line gives an rtpmap or fmtp attribute without a leading number
Numberless(raw) ==
    LET line == trim(raw)
        val  == SubSeq(line, 3, Len(line))
    IN  /\ Len(line) >= 2
        /\ line[1] = "a"
        /\ line[2] = "="
        /\ findSubString(val, Null, ":") \in {S_rtpmap, S_fmtp}
        /\ ~ScanInt(findSubString(val, ":", Null), 1).ok

\* the indeterminate values tried for a text: one for each of the MaxLines
\* reads a load can make.  A text that causes at most one such read is tried
\* with the constant sequences only, which give that read every value.
JunkSeqs(text) ==
    LET n == Cardinality({k \in 1..Len(text) : Numberless(text[k])})
    IN  IF n = 0 THEN {[k \in 1..MaxLines |-> 8]}
        ELSE IF n = 1 THEN {[k \in 1..MaxLines |-> j] : j \in JunkPts}
        ELSE [1..MaxLines -> JunkPts]

\* SdpParser::load(text): the first call of a parser is made with the text
\* the session holds, a later one with one of ReloadTexts; junk are the
\* indeterminate values of this call
Load(text, junk) ==
    /\ loads < MaxLoads
    /\ IF loads = 0
       THEN text = sdp /\ junk = junk_pt
       ELSE text \in ReloadTexts /\ junk \in JunkSeqs(text)
    /\ loads' = loads + 1
    /\ sdp' = text
    /\ junk_pt' = junk
    /\ _track_vec' = load(_track_vec, text, junk)
    /\ ret_tracks' = <<>>
    /\ ret_available' = <<>>
    /\ ret_string' = <<>>
    /\ UNCHANGED <<poolVars, rtpVars>>

\* SdpParser::getAvailableTrack on a parser that has loaded a text
GetAvailableTrack ==
    /\ loads > 0
    /\ ret_tracks' = <<getAvailableTrack(_track_vec)>>
    /\ UNCHANGED <<sdp, junk_pt, loads, _track_vec, ret_available, ret_string, poolVars, rtpVars>>

\* SdpParser::available on a parser that has loaded a text
Available ==
    /\ loads > 0
    /\ ret_available' = <<available(_track_vec)>>
    /\ UNCHANGED <<sdp, junk_pt, loads, _track_vec, ret_tracks, ret_string, poolVars, rtpVars>>

\* SdpParser::toString on a parser that has loaded a text
SdpToString ==
    /\ loads > 0
    /\ ret_string' = <<toString(_track_vec)>>
    /\ UNCHANGED <<sdp, junk_pt, loads, _track_vec, ret_tracks, ret_available, poolVars, rtpVars>>

\* a parser that has loaded nothing
SdpFresh ==
    /\ loads = 0
    /\ _track_vec = <<>>
    /\ ret_tracks = <<>>
    /\ ret_available = <<>>
    /\ ret_string = <<>>

-----------------------------------------------------------------------------
(* RtpHeader and RtpPacket *)

kRtpVersion == 2
kRtpHeaderSize == 12
kRtpTcpHeaderSize == 4

\* size_t and ssize_t values are kept modulo SizeMod; the width is cut to 30
\* bits, which is wider than any size of the model
SizeMod == 2 ^ 30

\* conversion to size_t
ToSize(x) == x % SizeMod
\* conversion to ssize_t
ToSsize(x) == IF x % SizeMod >= SizeMod \div 2 THEN (x % SizeMod) - SizeMod ELSE x % SizeMod

\* the byte at offset off of the buffer buf; a read behind its size sees a
\* byte oob that the buffer does not determine
ByteAt(buf, off, oob) == IF off + 1 <= Len(buf) THEN buf[off + 1] ELSE oob

\* the bit fields of the first two bytes of RtpHeader
Hdr_version(buf, oob) == ByteAt(buf, 0, oob) \div 64
Hdr_padding(buf, oob) == (ByteAt(buf, 0, oob) \div 32) % 2
Hdr_ext(buf, oob) == (ByteAt(buf, 0, oob) \div 16) % 2
Hdr_csrc(buf, oob) == ByteAt(buf, 0, oob) % 16
Hdr_pt(buf, oob) == ByteAt(buf, 1, oob) % 128

\* AV_RB16 at offset off of the member payload, which follows the 12 fixed bytes
AV_RB16(buf, off, oob) ==
    ByteAt(buf, kRtpHeaderSize + off, oob) * 256 + ByteAt(buf, kRtpHeaderSize + off + 1, oob)

\* RtpHeader::getCsrcSize
getCsrcSize(buf, oob) == Hdr_csrc(buf, oob) * 4

\* RtpHeader::getExtSize
getExtSize(buf, oob) ==
    IF Hdr_ext(buf, oob) = 0 THEN 0
    ELSE AV_RB16(buf, getCsrcSize(buf, oob) + 2, oob) * 4

\* RtpHeader::getPayloadOffset
getPayloadOffset(buf, oob) ==
    getCsrcSize(buf, oob) + (IF Hdr_ext(buf, oob) = 1 THEN 4 + getExtSize(buf, oob) ELSE 0)

\* RtpHeader::getPaddingSize
getPaddingSize(buf, rtp_size, oob) ==
    IF Hdr_padding(buf, oob) = 0 THEN 0 ELSE ByteAt(buf, rtp_size - 1, oob)

\* RtpHeader::getPayloadSize: the subtraction is done in size_t and the result
\* is converted to ssize_t
RtpHeader_getPayloadSize(buf, rtp_size, oob) ==
    LET invalid_size == ToSize(getPayloadOffset(buf, oob) + getPaddingSize(buf, rtp_size, oob))
    IN  ToSsize(ToSize(ToSize(rtp_size - invalid_size) - kRtpHeaderSize))

\* RtpPacket::getHeader: the buffer behind the 4 bytes of the TCP prefix
getHeader(data) == SubSeq(data, kRtpTcpHeaderSize + 1, Len(data))

\* RtpPacket::getPayloadSize, which returns size_t
RtpPacket_getPayloadSize(data, oob) ==
    ToSize(RtpHeader_getPayloadSize(getHeader(data), ToSize(Len(data) - kRtpTcpHeaderSize), oob))

isRtpAnyPt(buf, size) ==
    IF size < 2 THEN FALSE ELSE Hdr_version(buf, 0) = kRtpVersion

\* isRtp(buf, size)
isRtp(buf, size) ==
    IF size < 2 THEN FALSE
    ELSE (Hdr_pt(buf, 0) < 64 \/ Hdr_pt(buf, 0) >= 96) /\ Hdr_version(buf, 0) = kRtpVersion

\* isRtcp(buf, size)
isRtcp(buf, size) ==
    IF size < 2 THEN FALSE
    ELSE Hdr_pt(buf, 0) >= 64 /\ Hdr_pt(buf, 0) < 96

\* The packets of the model: the 4 bytes of the prefix, the 12 fixed bytes with
\* the given flags, and tail_len more bytes, of which the two that hold the
\* extension length are 0 and xlen and the last one is pad
MakePacket(cc, x, xlen, p, pad, tail_len) ==
    LET b0   == kRtpVersion * 64 + p * 32 + x * 16 + cc
        size == kRtpTcpHeaderSize + kRtpHeaderSize + tail_len
        at   == kRtpTcpHeaderSize + kRtpHeaderSize + 4 * cc + 4
    IN  [k \in 1..size |->
            IF k <= kRtpTcpHeaderSize THEN 0
            ELSE IF k = kRtpTcpHeaderSize + 1 THEN b0
            ELSE IF k = kRtpTcpHeaderSize + 2 THEN 96
            ELSE IF k = size /\ tail_len > 0 THEN pad
            ELSE IF k = at /\ x = 1 THEN xlen
            ELSE 0]

LayoutPackets ==
    {MakePacket(cc, x, xlen, p, pad, n) :
        cc \in 0..1, x \in 0..1, xlen \in 0..1, p \in 0..1, pad \in {0, 1, 2}, n \in 0..MaxTail}

\* buffers of 0 to 3 bytes behind the prefix, of every version and payload type
ShortPackets ==
    {[k \in 1..(kRtpTcpHeaderSize + n) |->
         IF k = kRtpTcpHeaderSize + 1 THEN v * 64
         ELSE IF k = kRtpTcpHeaderSize + 2 THEN b1 ELSE 0] :
        n \in 0..3, v \in 0..3, b1 \in 0..255}

OobBytes == {0, 255}

\* RtpHeader::getPayloadSize and RtpPacket::getPayloadSize on the packet
GetPayloadSize ==
    /\ Len(pkt) >= kRtpTcpHeaderSize + kRtpHeaderSize
    /\ ret_hdr_size' = <<RtpHeader_getPayloadSize(getHeader(pkt), Len(pkt) - kRtpTcpHeaderSize, oob_byte)>>
    /\ ret_pkt_size' = <<RtpPacket_getPayloadSize(pkt, oob_byte)>>
    /\ UNCHANGED <<pkt, oob_byte, ret_is_rtp, ret_is_rtcp, poolVars, sdpVars>>

\* isRtp on the bytes behind the prefix
IsRtp ==
    /\ ret_is_rtp' = <<isRtp(getHeader(pkt), Len(getHeader(pkt)))>>
    /\ UNCHANGED <<pkt, oob_byte, ret_hdr_size, ret_pkt_size, ret_is_rtcp, poolVars, sdpVars>>

\* isRtcp on the bytes behind the prefix
IsRtcp ==
    /\ ret_is_rtcp' = <<isRtcp(getHeader(pkt), Len(getHeader(pkt)))>>
    /\ UNCHANGED <<pkt, oob_byte, ret_hdr_size, ret_pkt_size, ret_is_rtp, poolVars, sdpVars>>

\* no function has been called on the packet
RtpFresh ==
    /\ ret_hdr_size = <<>>
    /\ ret_pkt_size = <<>>
    /\ ret_is_rtp = <<>>
    /\ ret_is_rtcp = <<>>

-----------------------------------------------------------------------------
(* The specifications *)

\* the two PortManager singletons after construction, and no call yet
PoolInit ==
    /\ s_min_port \in MinPorts
    /\ s_max_port \in MaxPorts
    /\ CtorAssert(s_min_port, s_max_port)
    /\ \E seed0 \in Seeds, seed1 \in Seeds :
         _port_pair_pool =
            (0 :> PortManagerCtor(s_min_port, s_max_port, seed0)) @@
            (1 :> PortManagerCtor(s_min_port, s_max_port, seed1))
    /\ handles = [h \in HandleIds |-> NoHandle]
    /\ pc = [t \in Threads |-> "idle"]
    /\ try_count = [t \in Threads |-> 0]
    /\ is_udp = [t \in Threads |-> TRUE]
    /\ sock_pair = [t \in Threads |-> 0]
    /\ pair = [t \in Threads |-> <<NoSock, NoSock>>]
    /\ new_pair = [t \in Threads |-> <<NoSock, NoSock>>]

\* no PortManager is used
PoolUnused ==
    /\ s_min_port = 0
    /\ s_max_port = 0
    /\ _port_pair_pool = [p \in PoolTypes |-> <<>>]
    /\ handles = [h \in HandleIds |-> NoHandle]
    /\ pc = [t \in Threads |-> "idle"]
    /\ try_count = [t \in Threads |-> 0]
    /\ is_udp = [t \in Threads |-> TRUE]
    /\ sock_pair = [t \in Threads |-> 0]
    /\ pair = [t \in Threads |-> <<NoSock, NoSock>>]
    /\ new_pair = [t \in Threads |-> <<NoSock, NoSock>>]

\* no SdpParser is used
SdpUnused ==
    /\ sdp = <<>>
    /\ junk_pt = <<>>
    /\ SdpFresh

\* no RtpPacket is used
RtpUnused ==
    /\ pkt = <<>>
    /\ oob_byte = 0
    /\ RtpFresh

Init == PoolInit /\ SdpUnused /\ RtpUnused

Next ==
    \/ \E t \in Threads, udp \in BOOLEAN : Call(t, udp)
    \/ \E t \in Threads : getPortPair(t)
    \/ \E t \in Threads, fail1 \in 0..2, fail2 \in 0..2 : BindBoth(t, fail1, fail2)
    \/ \E t \in Threads : Return(t)
    \/ \E t \in Threads : DropPair(t)

Spec == Init /\ [][Next]_vars

\* a constructed SdpParser and the text of its first load
InitSdp ==
    /\ PoolUnused
    /\ RtpUnused
    /\ sdp \in SdpTexts
    /\ junk_pt \in JunkSeqs(sdp)
    /\ SdpFresh

NextSdp ==
    \/ \E text \in {sdp} \cup ReloadTexts :
         \E junk \in {junk_pt} \cup JunkSeqs(text) : Load(text, junk)
    \/ GetAvailableTrack
    \/ Available

SpecSdp == InitSdp /\ [][NextSdp]_vars

\* a parser whose tracks are printed after a load
NextSdpPrint ==
    \/ \E text \in {sdp} \cup ReloadTexts :
         \E junk \in {junk_pt} \cup JunkSeqs(text) : Load(text, junk)
    \/ SdpToString

SpecSdpPrint == InitSdp /\ [][NextSdpPrint]_vars

\* a received packet
InitRtp ==
    /\ PoolUnused
    /\ SdpUnused
    /\ pkt \in LayoutPackets \cup ShortPackets
    /\ oob_byte \in OobBytes
    /\ RtpFresh

NextRtp ==
    \/ GetPayloadSize
    \/ IsRtp
    \/ IsRtcp

SpecRtp == InitRtp /\ [][NextRtp]_vars

\* the steps of thread t inside makeSockPair
Running(t) == getPortPair(t) \/ Return(t)
                 \/ \E fail1 \in 0..2, fail2 \in 0..2 : BindBoth(t, fail1, fail2)


-----------------------------------------------------------------------------
(* Claims about the port-pair pool and makeSockPair *)

LiveHandles == {h \in HandleIds : handles[h] # NoHandle}
PoolSet(p) == {_port_pair_pool[p][k] : k \in 1..Len(_port_pair_pool[p])}
InCall(t) == pc[t] \in {"try", "bind", "ret"}

\* C1: in every reachable state of the two pools under concurrent getPortPair
\* calls and handle drops, two live handles of one pool never hold the same
\* pair index, and the index of a live handle is not in its pool's deque.
C1_Exclusive ==
    /\ \A g \in LiveHandles, h \in LiveHandles :
          (g # h /\ handles[g].type = handles[h].type) => handles[g].pos # handles[h].pos
    /\ \A h \in LiveHandles : handles[h].pos \notin PoolSet(handles[h].type)
    /\ LiveHandles = Live

\* two sessions hold handles of the same pool at the same time
C1_Witness ==
    /\ handles[1] # NoHandle /\ handles[3] # NoHandle
    /\ handles[1].type = handles[3].type

\* the indices in front of index i in the deque dq
Before(dq, i) == {dq[k] : k \in {k \in 1..Len(dq) : \A j \in 1..k : dq[j] # i}}

\* a successful getPortPair on pool p
Acquired(p) == Len(_port_pair_pool'[p]) < Len(_port_pair_pool[p])

\* C2 (release): a step in which a handle loses its last owner appends the
\* handle's index to the back of its pool's deque and changes nothing else there.
C2_ReleaseStep ==
    \A h \in HandleIds :
        (handles[h] # NoHandle /\ handles'[h] = NoHandle) =>
            _port_pair_pool'[handles[h].type] =
                Append(_port_pair_pool[handles[h].type], handles[h].pos)

\* C2 (order): an index leaves the deque only from its front, and while an
\* index stays in the deque no index gets in front of it.
C2_FifoStep ==
    \A p \in PoolTypes : \A i \in PoolSet(p) :
        IF i \in {_port_pair_pool'[p][k] : k \in 1..Len(_port_pair_pool'[p])}
        THEN Before(_port_pair_pool'[p], i) \subseteq Before(_port_pair_pool[p], i)
        ELSE i = Head(_port_pair_pool[p])

\* C2: the last owner's drop pushes the index once to the back of its pool;
\* it is handed out again only after the indices that were in the deque at
\* the release, and, if acquisitions on the pool keep happening, eventually.
C2_ReleaseFifo ==
    /\ [][C2_ReleaseStep]_vars
    /\ [][C2_FifoStep]_vars
    /\ \A p \in PoolTypes : \A i \in PairIndices :
          ([]<><<Acquired(p)>>_vars) => ((i \in PoolSet(p)) ~> (i \notin PoolSet(p)))

\* an attempt of a UDP call threw after its sock0 was bound: its index went back
\* to the pool, behind the index that was already there
C2_Witness ==
    \E t \in Threads :
        /\ pc[t] = "try" /\ is_udp[t]
        /\ pair[t][1].proto = "udp" /\ pair[t][1].cb = 0
        /\ Len(_port_pair_pool[0]) = 2
        /\ Port0(_port_pair_pool[0][2]) = pair[t][1].port

\* C3 (count): an attempt runs only while fewer than 3 attempts have failed, the
\* error is propagated exactly when the third attempt failed, and a failed
\* attempt adds one to the count.
C3_Count ==
    \A t \in Threads :
        /\ InCall(t) => try_count[t] \in 0..(MaxTry - 1)
        /\ pc[t] = "failed" => try_count[t] = MaxTry

\* thread t took a step
Stepped(t) == pc'[t] # pc[t] \/ try_count'[t] # try_count[t]

\* the attempt of thread t threw: it counts once, and the third one ends the call
Threw(t) ==
    /\ try_count'[t] = try_count[t] + 1
    /\ pc'[t] = IF try_count[t] + 1 = 3 THEN "failed" ELSE "try"

\* C3 (steps): an attempt on an empty pool throws, an attempt with a handle
\* either succeeds or throws, a throw counts one failed attempt, and after the
\* attempt that succeeded the call returns without another attempt.
C3_Step ==
    \A t \in Threads :
        Stepped(t) =>
            /\ pc[t] = "try" =>
                  IF _port_pair_pool[PoolOf(is_udp[t])] = <<>>
                  THEN Threw(t)
                  ELSE pc'[t] = "bind" /\ try_count'[t] = try_count[t]
            /\ pc[t] = "bind" =>
                  \/ pc'[t] = "ret" /\ try_count'[t] = try_count[t]
                  \/ Threw(t)
            /\ pc[t] = "ret" => pc'[t] = "done"

\* C3 (no wait): a thread inside makeSockPair can always take its next step,
\* whatever the pools and the other threads are doing
C3_NeverWaits == \A t \in Threads : InCall(t) => ENABLED Running(t)

\* C3: makeSockPair makes at most 3 attempts, returns after the first one that
\* succeeds, propagates the error after the third failed one, never waits and
\* so ends after at most 3 attempts of at most 3 steps each.
C3_BoundedRetry ==
    /\ []C3_Count
    /\ []C3_NeverWaits
    /\ [][C3_Step]_vars

\* a call ended with the error after three failed attempts, the last one on an
\* empty pool
C3_Witness ==
    \E t \in Threads :
        pc[t] = "failed" /\ try_count[t] = MaxTry /\ _port_pair_pool[PoolOf(is_udp[t])] = <<>>

\* the sockets ss are open for protocol proto at the two ports of index pos
BoundAt(ss, proto, pos) ==
    /\ ss[1].proto = proto /\ ss[1].port = 2 * pos
    /\ ss[2].proto = proto /\ ss[2].port = 2 * pos + 1

\* the pair index thread t's call returned: the one its sockets' callbacks hold
HeldPos(t) == handles[pair[t][1].cb].pos

\* C4 as stated: while the pair returned by a successful makeSockPair is live,
\* sockets of the requested and of the opposite protocol are both bound at the
\* ports 2*i and 2*i+1.
C4_BothReserved ==
    \A t \in Threads :
        pc[t] = "done" =>
            /\ BoundAt(pair[t], ProtoName(is_udp[t]), HeldPos(t))
            /\ BoundAt(new_pair[t], ProtoName(~is_udp[t]), HeldPos(t))

\* C4 as amended: the returned sockets of the requested protocol are bound at
\* 2*i and 2*i+1 while the pair is live and i stays out of its pool; the
\* sockets of the opposite protocol are bound at those ports only until
\* PortManager::makeSockPair returns, which destroys them.
C4_RequestedReserved ==
    \A t \in Threads :
        /\ pc[t] \in {"ret", "done"} =>
              /\ pair[t][1].cb # 0 /\ pair[t][2].cb = pair[t][1].cb
              /\ handles[pair[t][1].cb].type = PoolOf(is_udp[t])
              /\ BoundAt(pair[t], ProtoName(is_udp[t]), HeldPos(t))
              /\ HeldPos(t) \notin PoolSet(PoolOf(is_udp[t]))
        /\ pc[t] = "ret" => BoundAt(new_pair[t], ProtoName(~is_udp[t]), HeldPos(t))
        /\ pc[t] = "done" => new_pair[t] = <<NoSock, NoSock>>

\* a TCP call succeeded and its pair is live
C4_Witness ==
    \E t \in Threads : pc[t] = "done" /\ ~is_udp[t] /\ pair[t][2].proto = "tcp"

\* every pair index of pool p, in the deque or held by a live handle, once
Holdings(p) ==
    _port_pair_pool[p] \o
    [k \in 1..Cardinality({h \in LiveHandles : handles[h].type = p}) |->
        handles[CHOOSE h \in LiveHandles :
                   /\ handles[h].type = p
                   /\ Cardinality({g \in LiveHandles : handles[g].type = p /\ g < h}) = k - 1].pos]

\* the pool's indices are exactly those of lo..hi-1, each once
ExactlyOnce(p, lo, hi) ==
    /\ {Holdings(p)[k] : k \in 1..Len(Holdings(p))} = lo..(hi - 1)
    /\ Len(Holdings(p)) = Cardinality(lo..(hi - 1))

\* the ports the open sockets use are those of pair indices lo..hi-1
PortsWithin(lo, hi) ==
    \A t \in Threads, k \in 1..2 :
        /\ pair[t][k].proto # "none" =>
              (pair[t][k].port - (k - 1)) \in {2 * i : i \in lo..(hi - 1)}
        /\ new_pair[t][k].proto # "none" =>
              (new_pair[t][k].port - (k - 1)) \in {2 * i : i \in lo..(hi - 1)}

\* C5 as stated: each pool holds (in its deque or handed out) every pair index
\* i with minPort/2 <= i < maxPort/2 exactly once and no other, and the ports
\* in use are 2*i and 2*i+1 of such indices.
C5_FloorRange ==
    /\ \A p \in PoolTypes : ExactlyOnce(p, s_min_port \div 2, s_max_port \div 2)
    /\ PortsWithin(s_min_port \div 2, s_max_port \div 2)

\* C5 as amended: the indices of a pool are those with
\* (minPort+1)/2 <= i < maxPort/2, each exactly once (for an odd minPort the
\* index minPort/2, whose even port lies below the range, is left out); every
\* port in use is 2*i or 2*i+1 of such an index.
C5_CeilRange ==
    /\ \A p \in PoolTypes : ExactlyOnce(p, (s_min_port + 1) \div 2, s_max_port \div 2)
    /\ PortsWithin((s_min_port + 1) \div 2, s_max_port \div 2)

\* a pool built from a range with an odd min has handed out an index
C5_Witness ==
    /\ s_min_port % 2 = 1
    /\ \E t \in Threads : pc[t] = "done" /\ HeldPos(t) = (s_min_port + 1) \div 2

\* the pool of the protocol thread t asked for, and the other one
OwnPool(t) == IF is_udp[t] THEN 0 ELSE 1
OtherPool(t) == IF is_udp[t] THEN 1 ELSE 0

\* the handles thread t's locals and sockets refer to
HandlesOf(t) ==
    {sock_pair[t], pair[t][1].cb, pair[t][2].cb, new_pair[t][1].cb, new_pair[t][2].cb} \ {0}

\* C11 (handles): every handle a call for protocol P works with, the one its
\* auxiliary sockets of the opposite protocol capture included, was taken
\* from P's pool.
C11_OwnHandles ==
    \A t \in Threads : \A h \in HandlesOf(t) :
        handles[h] # NoHandle => handles[h].type = OwnPool(t)

\* C11 (steps): no step of a call for protocol P changes the deque of the
\* opposite pool; the step that acquires removes exactly the front index of
\* P's deque and makes one handle of P's pool for it; the binding steps
\* (requested and auxiliary sockets) remove nothing from P's deque.
C11_Step ==
    \A t \in Threads :
        Stepped(t) =>
            /\ _port_pair_pool'[OtherPool(t)] = _port_pair_pool[OtherPool(t)]
            /\ (pc[t] = "try" /\ _port_pair_pool[OwnPool(t)] # <<>>) =>
                  /\ _port_pair_pool'[OwnPool(t)] = Tail(_port_pair_pool[OwnPool(t)])
                  /\ \E h \in HandleIds :
                        /\ handles[h] = NoHandle
                        /\ handles' = [handles EXCEPT ![h] =
                                          [type |-> OwnPool(t), pos |-> Head(_port_pair_pool[OwnPool(t)])]]
            /\ pc[t] = "bind" =>
                  /\ Len(_port_pair_pool'[OwnPool(t)]) >= Len(_port_pair_pool[OwnPool(t)])
                  /\ SubSeq(_port_pair_pool'[OwnPool(t)], 1, Len(_port_pair_pool[OwnPool(t)]))
                        = _port_pair_pool[OwnPool(t)]

\* C11: one attempt of makeSockPair for protocol P removes exactly one pair
\* index from P's pool and leaves the deque of the opposite pool unchanged,
\* also while it binds the auxiliary sockets of the opposite protocol; the
\* two pools never exchange indices (so one index value can be held by a
\* live UDP-pool handle and a live TCP-pool handle at once).
C11_PoolsApart == []C11_OwnHandles /\ [][C11_Step]_vars

\* a UDP call and a TCP call both succeeded and hold the same index value
C11_Witness ==
    \E t \in Threads, u \in Threads :
        /\ pc[t] = "done" /\ is_udp[t]
        /\ pc[u] = "done" /\ ~is_udp[u]
        /\ handles[pair[t][1].cb].type = 0
        /\ handles[pair[u][1].cb].type = 1
        /\ handles[pair[t][1].cb].pos = handles[pair[u][1].cb].pos

\* C13: when makeSockPair propagates its error after the last failed
\* attempt, no pair index acquired during its attempts is still held, and
\* the index of a failed attempt is back in the pool before the next attempt
\* acquires: a call that is about to acquire, or that failed, owns no handle.
C13_NothingHeldOnError ==
    \A t \in Threads :
        pc[t] \in {"try", "failed"} => \A h \in HandlesOf(t) : handles[h] = NoHandle

-----------------------------------------------------------------------------
(* Claims about SdpParser *)

TitleTracks == {k \in 1..Len(_track_vec) : _track_vec[k]._type = "title"}

\* C6: after any sequence of SdpParser::load calls, whatever the texts (empty,
\* without title lines, with malformed m= lines), the track sequence holds
\* exactly one track of kind Title, and it is the first element.
C6_OneTitleFirst == loads > 0 => TitleTracks = {1}

\* a parser loaded a second time, with a text that has a malformed m= line
C6_Witness ==
    /\ loads >= 2
    /\ \E k \in 1..Len(sdp) : sdp[k] = L_badm
    /\ TitleTracks = {1}

\* the first track of the kind in the track sequence
FirstOfKind(kind) ==
    {k \in 1..Len(_track_vec) :
        /\ _track_vec[k]._type = kind
        /\ \A j \in 1..(k - 1) : _track_vec[j]._type # kind}

\* C7: getAvailableTrack returns the first Audio track and the first Video
\* track of the track sequence and nothing else, in their original relative
\* order (so at most one of each kind, no Title or Invalid track, no later
\* track of a kind already returned); available() is true exactly when that
\* result is not empty.
C7_FirstOfEachKind ==
    /\ ret_tracks # <<>> =>
         LET ret == ret_tracks[1]
         IN  /\ {ret[n] : n \in 1..Len(ret)} = FirstOfKind("audio") \cup FirstOfKind("video")
             /\ \A n, m \in 1..Len(ret) : n < m => ret[n] < ret[m]
    /\ (ret_tracks # <<>> /\ ret_available # <<>>) =>
         (ret_available[1] <=> ret_tracks[1] # <<>>)

\* both functions were called on a text with two audio sections after a video one
C7_Witness ==
    /\ ret_tracks # <<>>
    /\ ret_available = <<TRUE>>
    /\ Len(ret_tracks[1]) = 2
    /\ _track_vec[ret_tracks[1][1]]._type = "video"
    /\ Cardinality({k \in 1..Len(_track_vec) : _track_vec[k]._type = "audio"}) = 2

\* the tracks of the text of the last load as the first loop leaves them
Parsed == ParseSdp(<<>>, sdp).vec

\* the fields of a track that its rtpmap and fmtp attributes resolve
Resolved(trk) ==
    [codec |-> trk._codec, samplerate |-> trk._samplerate,
     channel |-> trk._channel, fmtp |-> trk._fmtp]

\* the rtpmap and fmtp entries of a track
PtEntries(trk) == {k \in 1..Len(trk._attr) : trk._attr[k][1] \in {S_rtpmap, S_fmtp}}
HasNumber(trk, k) == ScanInt(trk._attr[k][2], 1).ok
Number(trk, k) == ScanInt(trk._attr[k][2], 1).val

\* entry k of track t (trk as the first loop leaves it) has a leading number
\* other than the resolved payload type
Mismatching(trk, t, k) ==
    /\ k \in PtEntries(trk)
    /\ HasNumber(trk, k)
    /\ Number(trk, k) # _track_vec[t]._pt

\* entry k of track t influences no resolved field: the track resolves to the
\* same fields without the entry
NoInfluence(trk, t, k) ==
    Resolved(ResolveTrack([trk EXCEPT !._attr = RemoveAt(@, k)], junk_pt))
        = Resolved(_track_vec[t])

\* C8 as stated: for every track, an rtpmap / fmtp entry whose leading number
\* differs from the track's resolved payload type influences none of the
\* resolved codec, sample rate, channel count and fmtp string.
C8_MismatchIgnored ==
    loads > 0 =>
        LET parsed == Parsed
        IN  \A t \in 1..Len(_track_vec) : \A k \in 1..Len(parsed[t]._attr) :
                Mismatching(parsed[t], t, k) => NoInfluence(parsed[t], t, k)

\* the payload type of the track is set by its m= line (it is not 0xff) and
\* each of its rtpmap and fmtp entries starts with a number
PtSetAndNumbered(trk) ==
    /\ trk._pt # kUnsetPt
    /\ \A k \in PtEntries(trk) : HasNumber(trk, k)

\* C8, corrected: for every track whose m= line gave a payload type other
\* than 0xff and whose rtpmap / fmtp entries all start with a number, an
\* entry whose leading number differs from the track's resolved payload type
\* influences none of the resolved codec, sample rate, channel count and
\* fmtp string.
C8_SetPtMismatchIgnored ==
    loads > 0 =>
        LET parsed == Parsed
        IN  \A t \in 1..Len(_track_vec) : \A k \in 1..Len(parsed[t]._attr) :
                (PtSetAndNumbered(parsed[t]) /\ Mismatching(parsed[t], t, k))
                    => NoInfluence(parsed[t], t, k)

\* a track with payload type 96 resolved its codec from a matching rtpmap
\* entry while it had a mismatching one
C8_Witness ==
    /\ loads > 0
    /\ \E t \in 1..Len(_track_vec) :
         /\ PtSetAndNumbered(Parsed[t])
         /\ \E k \in 1..Len(Parsed[t]._attr) : Mismatching(Parsed[t], t, k)
         /\ _track_vec[t]._codec # <<>>

\* whether the line is an m= line that matches neither pattern
DroppedMedia(raw) ==
    LET line == trim(raw)
        val  == SubSeq(line, 3, Len(line))
    IN  /\ Len(line) >= 2
        /\ line[1] = "m"
        /\ line[2] = "="
        /\ ScanMedia4(val).n # 4
        /\ ScanMedia5(val).n # 5

IsMedia(raw) ==
    LET line == trim(raw) IN Len(line) >= 2 /\ line[1] = "m" /\ line[2] = "="

\* the text without its dropped sections: each m= line that matches neither
\* pattern and the lines after it up to the next m= line are left out
RECURSIVE WithoutDropped(_, _, _)
WithoutDropped(lines, k, skipping) ==
    IF k > Len(lines) THEN <<>>
    ELSE LET skip == IF IsMedia(lines[k]) THEN DroppedMedia(lines[k]) ELSE skipping
         IN  (IF skip THEN <<>> ELSE <<lines[k]>>) \o WithoutDropped(lines, k + 1, skip)

\* C12: an m= line that matches neither pattern pushes no track, and the
\* lines after it up to the next m= line are attached to no track of the
\* sequence: the tracks are those of the text without that m= line and
\* those lines, so the Title track and the track pushed before are not
\* modified and later m= sections are parsed as usual.
C12_DroppedSectionInert ==
    loads > 0 => _track_vec = load(<<>>, WithoutDropped(sdp, 1, FALSE), junk_pt)

\* a text with a pushed audio track, then a malformed m= line followed by
\* a b= line, was loaded
C12_Witness ==
    /\ loads > 0
    /\ sdp = <<L_audio8, L_badm, L_b>>
    /\ Len(_track_vec) = 2
    /\ _track_vec[2]._b = <<>>

\* the blocks of the tracks of one kind among the given positions, in order
RECURSIVE BlocksOf(_, _)
BlocksOf(ks, type) ==
    IF ks = <<>> THEN <<>>
    ELSE (IF _track_vec[Head(ks)]._type = type
          THEN SdpTrack_toString(_track_vec[Head(ks)], 0) ELSE <<>>)
         \o BlocksOf(Tail(ks), type)

\* C14: for every parsed SDP, toString emits the Title block, then at most
\* one Video block, then at most one Audio block, and the Video and Audio
\* blocks are those of the tracks getAvailableTrack returns (the first of
\* each kind).
C14_FirstOfKindPrinted ==
    ret_string # <<>> =>
        LET ret == getAvailableTrack(_track_vec)
        IN  ret_string[1] = SdpTrack_toString(_track_vec[1], 0)
                            \o BlocksOf(ret, "video") \o BlocksOf(ret, "audio")

-----------------------------------------------------------------------------
(* Claims about RtpHeader, RtpPacket, isRtp and isRtcp *)

\* the size of the packet without the TCP prefix
RtpSize == Len(pkt) - kRtpTcpHeaderSize

\* totalSize - payloadOffset - padSize - 12 of the packet, as an integer
TruePayloadSize ==
    RtpSize - getPayloadOffset(getHeader(pkt), oob_byte)
            - getPaddingSize(getHeader(pkt), RtpSize, oob_byte) - 12

\* C9: for a packet whose payloadOffset + paddingSize + 12 exceeds its total
\* size (without the TCP prefix), both RtpHeader::getPayloadSize and
\* RtpPacket::getPayloadSize report the negative value
\* totalSize - payloadOffset - padSize - 12, never a non-negative one.
C9_NegativeSurfaced ==
    (ret_hdr_size # <<>> /\ TruePayloadSize < 0) =>
        /\ ret_hdr_size = <<TruePayloadSize>>
        /\ ret_pkt_size = <<TruePayloadSize>>

\* the fields of the first two bytes of the buffer given to isRtp / isRtcp
BufSize == Len(getHeader(pkt))
BufVersion == getHeader(pkt)[1] \div 64
BufPt == getHeader(pkt)[2] % 128

\* C10: for a buffer of at least 2 bytes isRtp and isRtcp are never both true;
\* with the correct version, payload types 0-63 and 96-127 give isRtp true and
\* isRtcp false; payload types 64-95 give isRtcp true (whatever the version)
\* and isRtp false; for a buffer of less than 2 bytes both are false.
C10_Classes ==
    /\ ret_is_rtp # <<>> =>
         IF BufSize < 2 THEN ret_is_rtp = <<FALSE>>
         ELSE /\ (BufVersion = 2 /\ BufPt \in (0..63) \cup (96..127)) => ret_is_rtp = <<TRUE>>
              /\ BufPt \in 64..95 => ret_is_rtp = <<FALSE>>
    /\ ret_is_rtcp # <<>> =>
         IF BufSize < 2 THEN ret_is_rtcp = <<FALSE>>
         ELSE /\ BufPt \in (0..63) \cup (96..127) => ret_is_rtcp = <<FALSE>>
              /\ BufPt \in 64..95 => ret_is_rtcp = <<TRUE>>
    /\ (ret_is_rtp # <<>> /\ ret_is_rtcp # <<>>) =>
         ~(ret_is_rtp = <<TRUE>> /\ ret_is_rtcp = <<TRUE>>)

\* both were called on a buffer of the correct version with payload type 72
C10_Witness ==
    /\ BufSize >= 2
    /\ BufVersion = 2
    /\ BufPt = 72
    /\ ret_is_rtp = <<FALSE>>
    /\ ret_is_rtcp = <<TRUE>>

====
